---- MODULE Spec2Model ----
(***************************************************************************)
(* A model of the two command-line scripts of the repository:              *)
(*   scripts/cloud-cost-analyzer.py      (CloudCostAnalyzer and its main)  *)
(*   scripts/infrastructure-validator.py (InfrastructureValidator, main)   *)
(* One behaviour is one run of one of the two scripts.  The environment    *)
(* (the cloud inventory, the CloudWatch datapoints, the file trees) is     *)
(* fixed by the initial state; the outcome of every external call that can *)
(* fail (an API request, a subprocess, opening the output file) is chosen  *)
(* when the call is made.                                                  *)
(***************************************************************************)
EXTENDS Integers, Sequences, FiniteSets, TLC

VARIABLES
    pc,             \* position of main
    exit_code,      \* process exit status; -1 while the process runs
    stdout,         \* the lines printed so far that the model keeps
    args,           \* parsed command-line arguments
    \* ---- cloud-cost-analyzer: environment
    Reservations,   \* what describe_instances returns under 'Reservations'
    cloudwatch,     \* instance id -> reply of get_metric_statistics
    Volumes,        \* what describe_volumes returns under 'Volumes'
    Snapshots,      \* what describe_snapshots returns under 'Snapshots'
    Addresses,      \* what describe_addresses returns under 'Addresses'
    \* ---- cloud-cost-analyzer: program state
    findings,       \* self.findings
    metric_calls,   \* instance ids get_metric_statistics was called with
    by_type,        \* generate_report: the groups, in first-seen order
    export_file,    \* the tokens json.dump wrote to the export file
    \* ---- infrastructure-validator: environment
    tf_files,       \* Path(terraform_path).rglob('*.tf') seen from the start directory
    playbooks,      \* the *.yml and *.yaml files under the ansible path, likewise
    manifests,      \* the *.yaml and *.yml files under the k8s path, likewise
    \* ---- infrastructure-validator: program state
    results,        \* self.results
    cwd,            \* the working directory of the process
    subprocess_calls, \* the commands subprocess.run was called with
    report,         \* what generate_report returned, section by section
    json_file       \* the tokens json.dump wrote to the --json-output file

costVars == <<Reservations, cloudwatch, Volumes, Snapshots, Addresses,
              findings, metric_calls, by_type, export_file>>

valVars == <<tf_files, playbooks, manifests, results, cwd, subprocess_calls,
             report, json_file>>

vars == <<pc, exit_code, stdout, args, costVars, valVars>>

----------------------------------------------------------------------------
(* Bounds of the model.                                                    *)

\* The account holds at most this many resources, all kinds together.
MaxResources == 2

\* The three trees hold at most this many files, all together.
MaxFiles == 2

----------------------------------------------------------------------------
(* Small helpers.                                                          *)

Range(s) == {s[i] : i \in 1..Len(s)}

IsPrefix(s, t) == Len(s) <= Len(t) /\ SubSeq(t, 1, Len(s)) = s

RECURSIVE Flatten(_)
Flatten(ss) == IF ss = <<>> THEN <<>> ELSE Head(ss) \o Flatten(Tail(ss))

RECURSIVE SumSeq(_)
SumSeq(s) == IF s = <<>> THEN 0 ELSE Head(s) + SumSeq(Tail(s))

RECURSIVE Join(_)
Join(cs) == IF cs = <<>> THEN "" ELSE Head(cs) \o Join(Tail(cs))

\* Cuts a sequence into consecutive non-empty chunks; cuts are the indexes
\* after which a new chunk starts.
RECURSIVE Chunk(_, _, _)
Chunk(s, cuts, from) ==
    IF from > Len(s) THEN <<>>
    ELSE LET ends == {c \in cuts : c >= from}
             to == IF ends = {} THEN Len(s)
                   ELSE CHOOSE c \in ends : \A d \in ends : c <= d
         IN  <<SubSeq(s, from, to)>> \o Chunk(s, cuts, to + 1)

----------------------------------------------------------------------------
(* cloud-cost-analyzer: the inputs.  A string the code inspects character  *)
(* by character (the instance type) is a sequence of characters.           *)

InstanceTypes ==
    { <<"t", "2", ".", "x">>, <<"m", "4", ".", "x">>,
      <<"c", "4", ".", "x">>, <<"m", "5", ".", "x">> }

\* get_metric_statistics either raises or returns daily averages.
MetricReplies ==
    [raises : {TRUE}, Datapoints : {<<>>}]
    \cup [raises : {FALSE}, Datapoints : {<<>>, <<4, 12>>, <<10>>}]

NoMetrics == [raises |-> FALSE, Datapoints |-> <<>>]

\* An instance of the inventory: its record as the API returns it, with or
\* without InstanceType, and what CloudWatch holds for it (cpu); the
\* datapoints of the days before an instance was stopped are still there.
InstanceShapes ==
    [hasType : {TRUE}, type : InstanceTypes \ {<<"c", "4", ".", "x">>},
     state : {"stopped"}, cpu : {NoMetrics}]
    \cup [hasType : {TRUE}, type : {<<"m", "5", ".", "x">>}, state : {"stopped"},
           cpu : {[raises |-> FALSE, Datapoints |-> <<4, 12>>]}]
    \cup [hasType : {FALSE}, type : {<<>>}, state : {"stopped"}, cpu : {NoMetrics}]
    \cup [hasType : {TRUE}, type : {<<"m", "5", ".", "x">>}, state : {"running"},
           cpu : MetricReplies]
    \cup [hasType : {TRUE}, type : {<<"c", "4", ".", "x">>}, state : {"running"},
           cpu : {[raises |-> FALSE, Datapoints |-> <<4, 12>>]}]

MkInstance(id, sh) ==
    IF sh.hasType
    THEN [InstanceId |-> id, InstanceType |-> sh.type, State |-> [Name |-> sh.state]]
    ELSE [InstanceId |-> id, State |-> [Name |-> sh.state]]

\* Sizes in GB the inventory uses.
SizesGB == {8}

VolumeShapes ==
    [hasSize : {TRUE}, size : SizesGB, type : {"gp2"}, state : {"available", "in-use"}]
    \cup [hasSize : {TRUE}, size : SizesGB, type : {"standard"}, state : {"available"}]
    \cup [hasSize : {TRUE}, size : SizesGB, type : {"io1"}, state : {"in-use"}]
    \cup [hasSize : {FALSE}, size : {0}, type : {"standard"}, state : {"available"}]

MkVolume(id, sh) ==
    IF sh.hasSize
    THEN [VolumeId |-> id, VolumeType |-> sh.type, Size |-> sh.size, State |-> sh.state]
    ELSE [VolumeId |-> id, VolumeType |-> sh.type, State |-> sh.state]

\* Time is counted in days and the run happens on day 0 (datetime.now()),
\* so a StartTime is a day number <= 0.
SnapshotStartTimes == {-90, -91}

SnapshotShapes == [hasStart : {TRUE}, start : SnapshotStartTimes, size : SizesGB]
                  \cup [hasStart : {FALSE}, start : {0}, size : SizesGB]

MkSnapshot(id, sh) ==
    IF sh.hasStart
    THEN [SnapshotId |-> id, StartTime |-> sh.start, VolumeSize |-> sh.size]
    ELSE [SnapshotId |-> id, VolumeSize |-> sh.size]

AddressShapes ==
    { [PublicIp |-> "203.0.113.1", AssociationId |-> "eipassoc-1"],
      [PublicIp |-> "203.0.113.2"],
      [AllocationId |-> "eipalloc-3"] }

----------------------------------------------------------------------------
(* cloud-cost-analyzer: the rules.                                         *)

CpuThreshold == 10
OldSnapshotDays == 90

Finding(resource, type, issue, recommendation, savings) ==
    [resource |-> resource, type |-> type, issue |-> issue,
     recommendation |-> recommendation, potential_savings |-> savings]

\* str.startswith with a tuple of prefixes.
StartsWithAny(s, prefixes) == \E p \in prefixes : IsPrefix(p, s)

\* str.replace(old, new) for a two-character old and new.
RECURSIVE Replace(_, _, _)
Replace(s, old, new) ==
    IF Len(s) < Len(old) THEN s
    ELSE IF SubSeq(s, 1, Len(old)) = old
         THEN new \o Replace(SubSeq(s, Len(old) + 1, Len(s)), old, new)
         ELSE <<Head(s)>> \o Replace(Tail(s), old, new)

OldGenerationPrefixes == { <<"t", "2">>, <<"m", "4">>, <<"c", "4">> }

NewGeneration(instance_type) ==
    Replace(Replace(Replace(instance_type, <<"t", "2">>, <<"t", "3">>),
                    <<"m", "4">>, <<"m", "5">>),
            <<"c", "4">>, <<"c", "5">>)

\* A float with one or two decimals, given in hundredths, as str() prints it.
FloatStr(hundredths) ==
    LET whole == hundredths \div 100
        frac == hundredths % 100
    IN  ToString(whole) \o "." \o
        (IF frac % 10 = 0 THEN ToString(frac \div 10)
         ELSE IF frac < 10 THEN "0" \o ToString(frac) ELSE ToString(frac))

\* f'{avg:.1f}' of sum/n.
OneDecimal(sum, n) ==
    LET tenths == (((sum * 100) \div n) + 5) \div 10
    IN  ToString(tenths \div 10) \o "." \o ToString(tenths % 10)

\* An average that takes a reply without datapoints for a CPU at 0%.
get_average_cpu_ZeroWhenEmpty(reply) ==
    IF reply.raises THEN [none |-> TRUE, sum |-> 0, n |-> 1]
    ELSE [none |-> FALSE, sum |-> SumSeq(reply.Datapoints),
          n |-> IF reply.Datapoints = <<>> THEN 1 ELSE Len(reply.Datapoints)]

\* get_average_cpu: None, or the average as the pair (sum, count).
get_average_cpu(reply) ==
    IF reply.raises THEN [none |-> TRUE, sum |-> 0, n |-> 1]
    ELSE IF reply.Datapoints /= <<>>
         THEN [none |-> FALSE, sum |-> SumSeq(reply.Datapoints),
               n |-> Len(reply.Datapoints)]
         ELSE [none |-> TRUE, sum |-> 0, n |-> 1]

StoppedFinding(instance_id) ==
    Finding(instance_id, "EC2", "Stopped instance still incurring EBS costs",
            "Terminate if not needed or create AMI and terminate", "Low")

OldGenerationFinding(instance_id, instance_type) ==
    Finding(instance_id, "EC2",
            "Old generation instance type: " \o Join(instance_type),
            "Upgrade to " \o Join(NewGeneration(instance_type))
                \o " for better price/performance",
            "Medium")

LowCpuFinding(instance_id, avg) ==
    Finding(instance_id, "EC2",
            "Low CPU utilization: " \o OneDecimal(avg.sum, avg.n) \o "%",
            "Consider downsizing or terminating", "High")

\* The body of the loop of analyze_ec2_instances for one instance record:
\* the findings it appends, the metric calls it makes, whether it raises.
InstanceRules(instance, cw) ==
    IF ~({"InstanceId", "InstanceType", "State"} \subseteq DOMAIN instance)
    THEN [raised |-> TRUE, out |-> <<>>, calls |-> <<>>]
    ELSE
      LET instance_id == instance.InstanceId
          instance_type == instance.InstanceType
          state == instance.State.Name
          avg == get_average_cpu(cw[instance_id])
          stopped == IF state = "stopped"
                     THEN <<StoppedFinding(instance_id)>> ELSE <<>>
          oldgen == IF StartsWithAny(instance_type, OldGenerationPrefixes)
                    THEN <<OldGenerationFinding(instance_id, instance_type)>>
                    ELSE <<>>
          lowcpu == IF state = "running" /\ ~avg.none
                       /\ avg.sum < CpuThreshold * avg.n
                    THEN <<LowCpuFinding(instance_id, avg)>> ELSE <<>>
      IN  [raised |-> FALSE, out |-> stopped \o oldgen \o lowcpu,
           calls |-> IF state = "running" THEN <<instance_id>> ELSE <<>>]

VolumeRules(volume) ==
    IF ~({"VolumeId", "VolumeType", "Size", "State"} \subseteq DOMAIN volume)
    THEN [raised |-> TRUE, out |-> <<>>, calls |-> <<>>]
    ELSE
      LET volume_id == volume.VolumeId
          volume_type == volume.VolumeType
          size == volume.Size
          state == volume.State
          unattached ==
            IF state = "available"
            THEN <<Finding(volume_id, "EBS",
                           "Unattached " \o ToString(size) \o "GB volume",
                           "Delete if not needed (create snapshot first)",
                           "~$" \o FloatStr(size * 10) \o "/month")>>
            ELSE <<>>
          oldtype ==
            IF volume_type \in {"standard", "io1"}
            THEN LET new_type == IF volume_type = "standard" THEN "gp3" ELSE "io2"
                 IN <<Finding(volume_id, "EBS",
                              "Old volume type: " \o volume_type,
                              "Migrate to " \o new_type \o " for better cost/performance",
                              "Low-Medium")>>
            ELSE <<>>
      IN  [raised |-> FALSE, out |-> unattached \o oldtype, calls |-> <<>>]

SnapshotRules(snapshot) ==
    IF ~({"SnapshotId", "StartTime", "VolumeSize"} \subseteq DOMAIN snapshot)
    THEN [raised |-> TRUE, out |-> <<>>, calls |-> <<>>]
    ELSE
      LET snapshot_id == snapshot.SnapshotId
          start_time == snapshot.StartTime
          size == snapshot.VolumeSize
          old_threshold == 0 - OldSnapshotDays
      IN  [raised |-> FALSE,
           out |-> IF start_time < old_threshold
                   THEN <<Finding(snapshot_id, "Snapshot",
                                  "Snapshot older than 90 days (" \o ToString(size) \o "GB)",
                                  "Review if still needed, delete if not",
                                  "~$" \o FloatStr(size * 5) \o "/month")>>
                   ELSE <<>>,
           calls |-> <<>>]

AddressRules(eip) ==
    [raised |-> FALSE,
     out |-> IF "AssociationId" \notin DOMAIN eip
             THEN <<Finding(IF "PublicIp" \in DOMAIN eip THEN eip.PublicIp ELSE "Unknown",
                            "EIP", "Unassociated Elastic IP",
                            "Release if not needed", "~$3.60/month")>>
             ELSE <<>>,
     calls |-> <<>>]

\* The for loop of an analyze_* method inside its try block, over the
\* outcome of the loop body on each record in order: the first record whose
\* body raises ends the loop, and what the later records would have given is
\* never used.
RECURSIVE RunRules(_, _)
RunRules(outcomes, acc) ==
    IF outcomes = <<>> THEN acc
    ELSE LET r == Head(outcomes)
         IN  IF r.raised THEN [acc EXCEPT !.raised = TRUE]
             ELSE RunRules(Tail(outcomes),
                           [raised |-> FALSE, out |-> acc.out \o r.out,
                            calls |-> acc.calls \o r.calls])

NoneYet == [raised |-> FALSE, out |-> <<>>, calls |-> <<>>]

----------------------------------------------------------------------------
(* cloud-cost-analyzer: generate_report and export_json.                   *)

\* A grouping that drops a finding equal to one its group already holds.
RECURSIVE GroupByType_Dedup(_, _)
GroupByType_Dedup(fs, groups) ==
    IF fs = <<>> THEN groups
    ELSE LET f == Head(fs)
             at == {i \in 1..Len(groups) : groups[i].type = f.type}
         IN  IF at = {}
             THEN GroupByType_Dedup(Tail(fs),
                              Append(groups, [type |-> f.type, findings |-> <<f>>]))
             ELSE LET i == CHOOSE j \in at : TRUE
                  IN  GroupByType_Dedup(Tail(fs),
                         IF f \in Range(groups[i].findings) THEN groups
                         ELSE [groups EXCEPT ![i].findings = Append(@, f)])

\* by_type[finding['type']].append(finding), the groups kept in the order
\* their first finding arrived (a dict keeps insertion order).
RECURSIVE GroupByType(_, _)
GroupByType(fs, groups) ==
    IF fs = <<>> THEN groups
    ELSE LET f == Head(fs)
             at == {i \in 1..Len(groups) : groups[i].type = f.type}
         IN  IF at = {}
             THEN GroupByType(Tail(fs),
                              Append(groups, [type |-> f.type, findings |-> <<f>>]))
             ELSE LET i == CHOOSE j \in at : TRUE
                  IN  GroupByType(Tail(fs),
                         [groups EXCEPT ![i].findings = Append(@, f)])

----------------------------------------------------------------------------
(* json.dump and json.load.  A JSON text is the sequence of its tokens; a  *)
(* Python dict is a function on its keys, a list is a sequence.            *)

Punct(c) == [t |-> c, s |-> "", n |-> 0]
StrTok(str) == [t |-> "str", s |-> str, n |-> 0]
NumTok(num) == [t |-> "num", s |-> "", n |-> num]

RECURSIVE JoinComma(_)
JoinComma(parts) ==
    IF parts = <<>> THEN <<>>
    ELSE IF Len(parts) = 1 THEN Head(parts)
    ELSE Head(parts) \o <<Punct(",")>> \o JoinComma(Tail(parts))

\* A dict is written key by key in insertion order; members is the sequence
\* of (key, tokens of the value).
DumpDict(members) ==
    <<Punct("{")>>
    \o JoinComma([k \in 1..Len(members) |->
                    <<StrTok(members[k][1]), Punct(":")>> \o members[k][2]])
    \o <<Punct("}")>>

\* A writer that loses the last item of every list.
DumpList_DropsLast(items) ==
    <<Punct("[")>>
    \o JoinComma(SubSeq(items, 1, IF items = <<>> THEN 0 ELSE Len(items) - 1))
    \o <<Punct("]")>>

DumpList(items) == <<Punct("[")>> \o JoinComma(items) \o <<Punct("]")>>

DumpStr(str) == <<StrTok(str)>>

DumpStrList(strs) == DumpList([k \in 1..Len(strs) |-> DumpStr(strs[k])])

FindingKeys == <<"resource", "type", "issue", "recommendation", "potential_savings">>

DumpFinding(f) ==
    DumpDict([k \in 1..Len(FindingKeys) |-> <<FindingKeys[k], DumpStr(f[FindingKeys[k]])>>])

\* The object export_json writes.
DumpExport(region, fs) ==
    DumpDict(<< <<"analysis_date", DumpStr("day 0")>>,
                <<"region", DumpStr(region)>>,
                <<"total_findings", <<NumTok(Len(fs))>> >>,
                <<"findings", DumpList([k \in 1..Len(fs) |-> DumpFinding(fs[k])])>> >>)

RECURSIVE LoadValue(_, _), LoadList(_, _, _), LoadDict(_, _, _)
LoadValue(toks, i) ==
    CASE toks[i].t = "str" -> [v |-> toks[i].s, next |-> i + 1]
      [] toks[i].t = "num" -> [v |-> toks[i].n, next |-> i + 1]
      [] toks[i].t = "[" -> LoadList(toks, i + 1, <<>>)
      [] toks[i].t = "{" -> LoadDict(toks, i + 1, <<>>)

LoadList(toks, i, acc) ==
    IF toks[i].t = "]" THEN [v |-> acc, next |-> i + 1]
    ELSE IF toks[i].t = "," THEN LoadList(toks, i + 1, acc)
    ELSE LET r == LoadValue(toks, i)
         IN  LoadList(toks, r.next, Append(acc, r.v))

LoadDict(toks, i, acc) ==
    IF toks[i].t = "}" THEN [v |-> acc, next |-> i + 1]
    ELSE IF toks[i].t = "," THEN LoadDict(toks, i + 1, acc)
    ELSE LET r == LoadValue(toks, i + 2)
         IN  LoadDict(toks, r.next, (toks[i].s :> r.v) @@ acc)

\* json.load of a whole file.
Load(toks) == LoadValue(toks, 1).v

----------------------------------------------------------------------------
(* cloud-cost-analyzer: main.                                              *)

\* The variables of the script that is not running.
ValIdle ==
    /\ tf_files = <<>> /\ playbooks = <<>> /\ manifests = <<>>
    /\ results = <<>> /\ cwd = "start" /\ subprocess_calls = <<>>
    /\ report = <<>> /\ json_file = <<>>

CostIdle ==
    /\ Reservations = <<>> /\ cloudwatch = <<>> /\ Volumes = <<>>
    /\ Snapshots = <<>> /\ Addresses = <<>>
    /\ findings = <<>> /\ metric_calls = <<>> /\ by_type = <<>>
    /\ export_file = <<>>

Ids(prefix, n) == [k \in 1..n |-> prefix \o ToString(k)]

CostInit ==
    /\ pc = "analyze_ec2_instances"
    /\ args \in [script : {"cloud-cost-analyzer"}, region : {"us-east-1"},
                export : BOOLEAN]
    /\ exit_code = -1
    /\ stdout = <<>>
    /\ \E n1 \in 0..MaxResources :
       \E n2 \in 0..(MaxResources - n1) :
       \E n3 \in 0..(MaxResources - n1 - n2) :
       \E n4 \in 0..(MaxResources - n1 - n2 - n3) :
         /\ \E shapes \in [1..n1 -> InstanceShapes], cuts \in SUBSET ({1} \cap 1..(n1 - 1)) :
              /\ Reservations =
                   LET all == [k \in 1..n1 |-> MkInstance(Ids("i-", n1)[k], shapes[k])]
                       groups == Chunk(all, cuts, 1)
                   IN  [g \in 1..Len(groups) |-> [Instances |-> groups[g]]]
              /\ cloudwatch = [id \in Range(Ids("i-", n1)) |->
                                 shapes[CHOOSE k \in 1..n1 : Ids("i-", n1)[k] = id].cpu]
         /\ \E shapes \in [1..n2 -> VolumeShapes] :
              Volumes = [k \in 1..n2 |-> MkVolume(Ids("vol-", n2)[k], shapes[k])]
         /\ \E shapes \in [1..n3 -> SnapshotShapes] :
              Snapshots = [k \in 1..n3 |-> MkSnapshot(Ids("snap-", n3)[k], shapes[k])]
         /\ Addresses \in [1..n4 -> AddressShapes]
    /\ findings = <<>>
    /\ metric_calls = <<>>
    /\ by_type = <<>>
    /\ export_file = <<>>
    /\ ValIdle

\* An exception main does not catch: the traceback names the call that
\* raised, and the interpreter exits with status 1.
Crash(printed, raiser) ==
    /\ pc' = "crashed"
    /\ exit_code' = 1
    /\ stdout' = stdout \o printed \o <<"Traceback: " \o raiser>>

\* Analyze without its except clause: the exception reaches main.
Analyze_Propagates(classified, banner, errline, next) ==
    \E transport_ok \in BOOLEAN :
      LET r == IF transport_ok THEN classified
               ELSE [NoneYet EXCEPT !.raised = TRUE]
      IN  /\ findings' = findings \o r.out
          /\ metric_calls' = metric_calls \o r.calls
          /\ IF r.raised THEN Crash(<<banner>>, errline)
             ELSE /\ stdout' = Append(stdout, banner)
                  /\ pc' = next
                  /\ exit_code' = exit_code

\* One analyze_* method: the describe call may raise (transport failure);
\* otherwise the records are classified, which gives classified.  The
\* except clause prints the error and the method returns normally.
Analyze(classified, banner, errline, next) ==
    \E transport_ok \in BOOLEAN :
      LET r == IF transport_ok THEN classified
               ELSE [NoneYet EXCEPT !.raised = TRUE]
          e == IF transport_ok THEN "KeyError" ELSE "ConnectivityError"
      IN  /\ findings' = findings \o r.out
          /\ metric_calls' = metric_calls \o r.calls
          /\ stdout' = stdout \o <<banner>>
                         \o (IF r.raised THEN <<errline \o ": " \o e>> ELSE <<>>)
          /\ pc' = next
          /\ exit_code' = exit_code

analyze_ec2_instances ==
    /\ pc = "analyze_ec2_instances"
    /\ LET instances == Flatten([g \in 1..Len(Reservations) |->
                                    Reservations[g].Instances])
       IN Analyze(RunRules([k \in 1..Len(instances) |->
                              InstanceRules(instances[k], cloudwatch)], NoneYet),
               "Analyzing EC2 Instances...", "Error analyzing EC2",
               "analyze_ebs_volumes")
    /\ UNCHANGED <<args, Reservations, cloudwatch, Volumes, Snapshots,
                   Addresses, by_type, export_file, valVars>>

analyze_ebs_volumes ==
    /\ pc = "analyze_ebs_volumes"
    /\ Analyze(RunRules([k \in 1..Len(Volumes) |-> VolumeRules(Volumes[k])], NoneYet),
               "Analyzing EBS Volumes...", "Error analyzing EBS",
               "analyze_snapshots")
    /\ UNCHANGED <<args, Reservations, cloudwatch, Volumes, Snapshots,
                   Addresses, by_type, export_file, valVars>>

analyze_snapshots ==
    /\ pc = "analyze_snapshots"
    /\ Analyze(RunRules([k \in 1..Len(Snapshots) |-> SnapshotRules(Snapshots[k])], NoneYet),
               "Analyzing EBS Snapshots...", "Error analyzing snapshots",
               "analyze_elastic_ips")
    /\ UNCHANGED <<args, Reservations, cloudwatch, Volumes, Snapshots,
                   Addresses, by_type, export_file, valVars>>

analyze_elastic_ips ==
    /\ pc = "analyze_elastic_ips"
    /\ Analyze(RunRules([k \in 1..Len(Addresses) |-> AddressRules(Addresses[k])], NoneYet),
               "Analyzing Elastic IPs...", "Error analyzing Elastic IPs",
               "generate_report")
    /\ UNCHANGED <<args, Reservations, cloudwatch, Volumes, Snapshots,
                   Addresses, by_type, export_file, valVars>>

cost_generate_report ==
    /\ pc = "generate_report"
    /\ args.script = "cloud-cost-analyzer"
    /\ IF findings = <<>>
       THEN /\ stdout' = Append(stdout, "No cost optimization opportunities found!")
            /\ by_type' = by_type
       ELSE /\ by_type' = GroupByType(findings, <<>>)
            /\ stdout' = stdout
                 \o <<"Cloud Cost Optimization Report">>
                 \o [g \in 1..Len(by_type') |->
                       by_type'[g].type \o " ("
                         \o ToString(Len(by_type'[g].findings)) \o " findings):"]
                 \o <<"Total Findings: " \o ToString(Len(findings))>>
    /\ pc' = IF args.export THEN "export_json" ELSE "exit"
    /\ UNCHANGED <<exit_code, args, Reservations, cloudwatch, Volumes, Snapshots,
                   Addresses, findings, metric_calls, export_file, valVars>>

\* export_json, called by main when --export is given.  open() may raise;
\* main does not catch it and the interpreter exits with status 1.
export_json ==
    /\ pc = "export_json"
    /\ \E open_ok \in BOOLEAN :
         IF open_ok
         THEN /\ export_file' = DumpExport(args.region, findings)
              /\ stdout' = Append(stdout, "Report exported")
              /\ pc' = "exit"
              /\ exit_code' = exit_code
         ELSE /\ Crash(<<>>, "open")
              /\ export_file' = export_file
    /\ UNCHANGED <<args, Reservations, cloudwatch, Volumes, Snapshots,
                   Addresses, findings, metric_calls, by_type, valVars>>

\* main returns and the interpreter exits with status 0.
cost_exit ==
    /\ pc = "exit"
    /\ args.script = "cloud-cost-analyzer"
    /\ pc' = "done"
    /\ exit_code' = 0
    /\ UNCHANGED <<stdout, args, costVars, valVars>>

----------------------------------------------------------------------------
(* infrastructure-validator: the inputs.  The text of a .tf file is the    *)
(* set of the substrings the checks look for that occur in it.             *)

TfContents ==
    { {}, {"backend"}, {"required_providers"}, {"resource "},
      {"backend", "required_providers", "resource ", "tags"} }

\* A path rglob('*.tf') returns; read_text raises on one that is a
\* directory, unreadable or not text.
TfShapes == [readable : {TRUE}, content : TfContents]
            \cup [readable : {FALSE}, content : {{}}]

Task(isdict, named) == [isdict |-> isdict, named |-> named]

\* An item of the top-level list of a playbook.  tasks_iterable is FALSE
\* for "tasks:" with no value (None).
Play(isdict, keys, tasks_iterable, tasks) ==
    [isdict |-> isdict, keys |-> keys, tasks_iterable |-> tasks_iterable,
     tasks |-> tasks]

PlayNamed == Play(TRUE, {"name"}, TRUE, <<>>)
PlayFull == Play(TRUE, {"name", "become", "tasks"}, TRUE, <<Task(TRUE, TRUE)>>)
PlayBare == Play(TRUE, {"tasks"}, TRUE, <<Task(TRUE, FALSE), Task(TRUE, FALSE)>>)
PlayMixedTasks ==
    Play(TRUE, {"tasks"}, TRUE, <<Task(TRUE, TRUE), Task(FALSE, FALSE), Task(TRUE, FALSE)>>)
PlayNullTasks == Play(TRUE, {"name", "tasks"}, FALSE, <<>>)
PlayString == Play(FALSE, {}, TRUE, <<>>)

\* What yaml.safe_load makes of a playbook file: open() raises, the YAML is
\* malformed, or the value is None, a mapping or a list.
PlaybookShapes ==
    { [readable |-> FALSE, yaml_ok |-> TRUE, kind |-> "null", plays |-> <<>>],
      [readable |-> TRUE, yaml_ok |-> FALSE, kind |-> "null", plays |-> <<>>],
      [readable |-> TRUE, yaml_ok |-> TRUE, kind |-> "mapping", plays |-> <<>>],
      [readable |-> TRUE, yaml_ok |-> TRUE, kind |-> "list", plays |-> <<PlayFull>>],
      [readable |-> TRUE, yaml_ok |-> TRUE, kind |-> "list",
       plays |-> <<PlayBare, PlayBare, PlayBare>>],
      [readable |-> TRUE, yaml_ok |-> TRUE, kind |-> "list",
       plays |-> <<PlayNamed, PlayString, PlayNullTasks, PlayNamed>>],
      [readable |-> TRUE, yaml_ok |-> TRUE, kind |-> "list",
       plays |-> <<PlayMixedTasks>>] }

\* A container of a pod template: its keys, and what 'resources' holds
\* ("null" for "resources:" with no value).
Container(keys, resources) == [keys |-> keys, resources |-> resources]

ContainerBare == Container({}, "absent")
ContainerGood ==
    Container({"resources", "livenessProbe", "securityContext"}, "limits")
ContainerRequests == Container({"resources", "readinessProbe"}, "requests")
ContainerLimits == Container({"resources"}, "limits")
ContainerNullResources == Container({"resources"}, "null")

\* A YAML document of a manifest.  shape: "null" (empty document), "dict" or
\* "list" (a list that holds the string 'kind'); spec: what doc['spec'] is
\* ("absent", "null" or "dict"); name: metadata.name, "" when absent.
Doc(shape, keys, kind, name, spec, containers) ==
    [shape |-> shape, keys |-> keys, kind |-> kind, name |-> name,
     spec |-> spec, containers |-> containers]

Workload(kind, containers) ==
    Doc("dict", {"kind", "metadata", "spec"}, kind, "web", "dict", containers)

DocNull == Doc("null", {}, "", "", "absent", <<>>)
DocNoKind == Doc("dict", {"metadata"}, "", "cfg", "absent", <<>>)
DocList == Doc("list", {}, "", "", "absent", <<>>)
DocService == Doc("dict", {"kind", "spec"}, "Service", "", "dict", <<>>)
DocNullSpec == Doc("dict", {"kind", "spec"}, "Deployment", "", "null", <<>>)

\* A manifest file: open() raises, or the stream holds docs, followed by
\* malformed YAML when broken.
ManifestShapes ==
    { [readable |-> FALSE, docs |-> <<>>, broken |-> FALSE],
      [readable |-> TRUE, docs |-> <<>>, broken |-> TRUE],
      [readable |-> TRUE, docs |-> <<Workload("Deployment", <<ContainerBare>>)>>,
       broken |-> FALSE],
      [readable |-> TRUE,
       docs |-> <<Workload("Deployment", <<ContainerGood>>), DocList,
                  Workload("StatefulSet", <<ContainerBare>>)>>,
       broken |-> FALSE],
      [readable |-> TRUE, docs |-> <<DocNull, DocService, DocNoKind>>, broken |-> FALSE],
      [readable |-> TRUE,
       docs |-> <<DocNullSpec, Workload("Deployment", <<ContainerBare>>)>>,
       broken |-> FALSE],
      [readable |-> TRUE,
       docs |-> <<Workload("StatefulSet", <<ContainerGood, ContainerRequests>>),
                  Workload("DaemonSet", <<ContainerLimits>>),
                  Workload("Deployment", <<>>)>>,
       broken |-> FALSE],
      [readable |-> TRUE, docs |-> <<Workload("Deployment", <<ContainerBare>>)>>,
       broken |-> TRUE],
      [readable |-> TRUE,
       docs |-> <<Workload("Deployment", <<ContainerLimits, ContainerNullResources>>),
                  Workload("DaemonSet", <<ContainerBare>>)>>,
       broken |-> FALSE] }

Named(shapes, prefix, suffix) ==
    [k \in 1..Len(shapes) |->
       [name |-> prefix \o ToString(k) \o suffix] @@ shapes[k]]

----------------------------------------------------------------------------
(* infrastructure-validator: the checks.  A validator threads a record     *)
(* through its checks: the three lists of its category, the local list     *)
(* 'checks' (as printed lines) and whether an exception has been raised.   *)

Categories == <<"terraform", "ansible", "kubernetes">>

NoEntries == [passed |-> <<>>, failed |-> <<>>, warnings |-> <<>>]

Start(entries) ==
    [passed |-> entries.passed, failed |-> entries.failed,
     warnings |-> entries.warnings, checks |-> <<>>, raised |-> FALSE]

Entries(st) == [passed |-> st.passed, failed |-> st.failed, warnings |-> st.warnings]

Note(st, status, message) ==
    [st EXCEPT !.checks = Append(@, status \o " " \o message)]

Passed(st, entry, message) ==
    [Note(st, "[ok]", message) EXCEPT !.passed = Append(@, entry)]

Failed(st, entry, message) ==
    [Note(st, "[x]", message) EXCEPT !.failed = Append(@, entry)]

Warned(st, entry, message) ==
    [Note(st, "[!]", message) EXCEPT !.warnings = Append(@, entry)]

Raise(st) == [st EXCEPT !.raised = TRUE]

\* any(token in f.read_text() for f in tf_files): the files are read in
\* order up to the first that holds the token; read_text may raise.
RECURSIVE AnyContains(_, _)
AnyContains(files, token) ==
    IF files = <<>> THEN "no"
    ELSE IF ~Head(files).readable THEN "raise"
    ELSE IF token \in Head(files).content THEN "yes"
    ELSE AnyContains(Tail(files), token)

\* Check 3 of validate_terraform.
RECURSIVE TagsLoop(_, _)
TagsLoop(files, st) ==
    IF files = <<>> THEN st
    ELSE LET tf_file == Head(files)
         IN  IF ~tf_file.readable THEN Raise(st)
             ELSE TagsLoop(Tail(files),
                    IF "resource " \in tf_file.content /\ "tags" \notin tf_file.content
                    THEN Warned(st, tf_file.name \o ": Add tags",
                                tf_file.name \o ": Resources may be missing tags")
                    ELSE st)

\* Checks 1 to 3 of validate_terraform; none of them is inside a try.
TerraformFileChecks(files, st0) ==
    LET has_backend == AnyContains(files, "backend")
        st1 == IF has_backend = "raise" THEN Raise(st0)
               ELSE IF has_backend = "yes"
               THEN Passed(st0, "Remote state configured", "Remote state backend configured")
               ELSE Failed(st0, "Missing remote state backend", "No remote state backend found")
        has_version_constraints == AnyContains(files, "required_providers")
        st2 == IF st1.raised THEN st1
               ELSE IF has_version_constraints = "raise" THEN Raise(st1)
               ELSE IF has_version_constraints = "yes"
               THEN Passed(st1, "Provider versions pinned", "Provider versions pinned")
               ELSE Warned(st1, "Pin provider versions", "Provider versions not explicitly set")
    IN  IF st2.raised THEN st2 ELSE TagsLoop(files, st2)

\* What the two terraform subprocesses do: the return code, or the
\* exception subprocess.run raises.
TerraformOutcomes ==
    [fmt : {"0", "1"}, validate : {"0", "1"}]
    \cup { [fmt |-> "FileNotFoundError", validate |-> "FileNotFoundError"],
           [fmt |-> "PermissionError", validate |-> "PermissionError"] }

\* Check 4: only FileNotFoundError is caught.
TerraformFmt(st, outcome) ==
    CASE outcome = "0" -> Passed(st, "Formatting correct", "Terraform formatting is correct")
      [] outcome = "1" -> Failed(st, "Run terraform fmt", "Terraform needs formatting")
      [] outcome = "FileNotFoundError" -> Note(st, "[!]", "Terraform not installed")
      [] OTHER -> Raise(st)

\* Check 5: every Exception is caught.
TerraformValidate(st, outcome) ==
    CASE outcome = "0" ->
           Passed(st, "Configuration valid", "Terraform configuration is valid")
      [] outcome = "1" -> Failed(st, "Configuration invalid", "Validation failed")
      [] OTHER -> Note(st, "[!]", "Could not validate: " \o outcome)

\* The body of "for play in content" of validate_ansible.
PlayChecks(play, name, st) ==
    IF ~play.isdict THEN st
    ELSE
      LET st1 == IF "name" \in play.keys
                 THEN Passed(st, name \o ": Named", name \o ": Has descriptive name")
                 ELSE Warned(st, name \o ": Add name", name \o ": Missing name")
          st2 == IF "become" \in play.keys
                 THEN Note(st1, "[i]", name \o ": Uses privilege escalation")
                 ELSE st1
      IN  IF "tasks" \notin play.keys THEN st2
          ELSE IF ~play.tasks_iterable THEN Raise(st2)
          ELSE IF \E k \in 1..Len(play.tasks) :
                     play.tasks[k].isdict /\ ~play.tasks[k].named
          THEN Warned(st2, name \o ": Name all tasks", name \o ": Task missing name")
          ELSE st2

RECURSIVE PlaysLoop(_, _, _)
PlaysLoop(plays, name, st) ==
    IF plays = <<>> THEN st
    ELSE LET r == PlayChecks(Head(plays), name, st)
         IN  IF r.raised THEN r ELSE PlaysLoop(Tail(plays), name, r)

\* The try block of validate_ansible for one playbook, with its handlers.
PlaybookChecks(playbook, st) ==
    IF ~playbook.readable
    THEN Note(st, "[!]", playbook.name \o ": Could not parse")
    ELSE IF ~playbook.yaml_ok
    THEN Failed(st, playbook.name \o ": YAML error", playbook.name \o ": YAML syntax error")
    ELSE IF playbook.kind /= "list" THEN st
    ELSE LET r == PlaysLoop(playbook.plays, playbook.name, st)
         IN  IF r.raised
             THEN Note([r EXCEPT !.raised = FALSE], "[!]",
                       playbook.name \o ": Could not parse")
             ELSE r

RECURSIVE PlaybooksLoop(_, _)
PlaybooksLoop(files, st) ==
    IF files = <<>> THEN st
    ELSE PlaybooksLoop(Tail(files), PlaybookChecks(Head(files), st))

LintOutcomes == {"0", "1", "FileNotFoundError", "PermissionError"}

\* The ansible-lint check: only FileNotFoundError is caught.
AnsibleLint(st, outcome) ==
    CASE outcome = "0" -> Passed(st, "ansible-lint available", "ansible-lint is available")
      [] outcome = "1" -> st
      [] outcome = "FileNotFoundError" ->
           Warned(st, "Install ansible-lint",
                  "ansible-lint not installed - install for better validation")
      [] OTHER -> Raise(st)

WorkloadKinds == {"Deployment", "StatefulSet", "DaemonSet"}

\* all('resources' in c and 'limits' in c.get('resources', {}) for c in ...)
RECURSIVE AllLimits(_)
AllLimits(containers) ==
    IF containers = <<>> THEN "yes"
    ELSE LET c == Head(containers)
         IN  IF "resources" \notin c.keys THEN "no"
             ELSE IF c.resources = "null" THEN "raise"
             ELSE IF c.resources = "limits" THEN AllLimits(Tail(containers))
             ELSE "no"

\* The body of "for doc in docs" of validate_kubernetes.
DocChecks(doc, file, st) ==
    IF doc.shape = "null" THEN st
    ELSE IF doc.shape = "list" THEN Raise(st)
    ELSE IF "kind" \notin doc.keys THEN st
    ELSE
      LET kind == doc.kind
          name == IF doc.name = "" THEN "unnamed" ELSE doc.name
          what == file \o ": " \o kind \o "/" \o name
      IN  IF kind \notin WorkloadKinds THEN st
          ELSE IF doc.spec = "null" THEN Raise(st)
          ELSE
            LET containers == IF doc.spec = "dict" THEN doc.containers ELSE <<>>
                has_limits == AllLimits(containers)
                has_health_checks ==
                    \A k \in 1..Len(containers) :
                        "livenessProbe" \in containers[k].keys
                        \/ "readinessProbe" \in containers[k].keys
                has_security_context ==
                    \E k \in 1..Len(containers) :
                        "securityContext" \in containers[k].keys
                st1 == IF has_limits = "yes"
                       THEN Passed(st, file \o ": Resource limits",
                                   what \o " has resource limits")
                       ELSE Failed(st, file \o ": Add resource limits",
                                   what \o " missing resource limits")
                st2 == IF has_health_checks
                       THEN Passed(st1, file \o ": Health checks",
                                   what \o " has health checks")
                       ELSE Warned(st1, file \o ": Add health checks",
                                   what \o " missing health checks")
            IN  IF has_limits = "raise" THEN Raise(st)
                ELSE IF has_security_context
                THEN Passed(st2, file \o ": Security context",
                            what \o " has security context")
                ELSE Warned(st2, file \o ": Add security context",
                            what \o " missing security context")

RECURSIVE DocsLoop(_, _, _)
DocsLoop(docs, file, st) ==
    IF docs = <<>> THEN st
    ELSE LET r == DocChecks(Head(docs), file, st)
         IN  IF r.raised THEN r ELSE DocsLoop(Tail(docs), file, r)

\* The try block of validate_kubernetes for one manifest, with its handlers.
\* safe_load_all is lazy: malformed YAML after the documents raises once
\* the documents before it have been checked.
ManifestChecks(manifest, st) ==
    IF ~manifest.readable
    THEN Note(st, "[!]", manifest.name \o ": Could not parse")
    ELSE LET r == DocsLoop(manifest.docs, manifest.name, st)
         IN  IF r.raised
             THEN Note([r EXCEPT !.raised = FALSE], "[!]",
                       manifest.name \o ": Could not parse")
             ELSE IF manifest.broken
             THEN Failed(r, manifest.name \o ": YAML error",
                         manifest.name \o ": YAML syntax error")
             ELSE r

RECURSIVE ManifestsLoop(_, _)
ManifestsLoop(files, st) ==
    IF files = <<>> THEN st
    ELSE ManifestsLoop(Tail(files), ManifestChecks(Head(files), st))

----------------------------------------------------------------------------
(* infrastructure-validator: generate_report and the JSON output.          *)

DisplayCap == 5

Upper(category) ==
    CASE category = "terraform" -> "TERRAFORM"
      [] category = "ansible" -> "ANSIBLE"
      [] category = "kubernetes" -> "KUBERNETES"

\* A slice that keeps everything.
FirstN_NoCap(s, n) == s

\* results['warnings'][:5]
FirstN(s, n) == SubSeq(s, 1, IF Len(s) < n THEN Len(s) ELSE n)

Section(category, r) ==
    [category |-> Upper(category),
     passed |-> Len(r.passed), failed |-> Len(r.failed), warnings |-> Len(r.warnings),
     issues |-> r.failed,
     shown |-> FirstN(r.warnings, DisplayCap)]

RECURSIVE Sections(_, _)
Sections(res, cats) ==
    IF cats = <<>> THEN <<>>
    ELSE LET r == res[Head(cats)]
             total == Len(r.passed) + Len(r.failed) + Len(r.warnings)
         IN  (IF total = 0 THEN <<>> ELSE <<Section(Head(cats), r)>>)
             \o Sections(res, Tail(cats))

ResultKeys == <<"passed", "failed", "warnings">>

\* json.dump(validator.results, f)
DumpResults(res) ==
    DumpDict([c \in 1..Len(Categories) |->
        <<Categories[c],
          DumpDict([k \in 1..Len(ResultKeys) |->
              <<ResultKeys[k], DumpStrList(res[Categories[c]][ResultKeys[k]])>>])>>])

----------------------------------------------------------------------------
(* infrastructure-validator: main.                                         *)

ValInit ==
    /\ pc = "validate_terraform"
    /\ args \in [script : {"infrastructure-validator"}, absolute : BOOLEAN,
                json_output : BOOLEAN]
    /\ exit_code = -1
    /\ stdout = <<>>
    /\ \E n1 \in 0..MaxFiles :
       \E n2 \in 0..(MaxFiles - n1) :
       \E n3 \in 0..(MaxFiles - n1 - n2) :
         /\ \E shapes \in [1..n1 -> TfShapes] : tf_files = Named(shapes, "f", ".tf")
         /\ \E shapes \in [1..n2 -> PlaybookShapes] :
              playbooks = Named(shapes, "play", ".yml")
         /\ \E shapes \in [1..n3 -> ManifestShapes] :
              manifests = Named(shapes, "m", ".yaml")
    /\ results = [c \in Range(Categories) |-> NoEntries]
    /\ cwd = "start"
    /\ subprocess_calls = <<>>
    /\ report = <<>>
    /\ json_file = <<>>
    /\ CostIdle

\* What rglob finds under a path argument: the tree as seen from the start
\* directory when the path is absolute or the process is still there; a
\* relative path names no directory once the process has changed into the
\* terraform path.
Rglob(files) == IF args.absolute \/ cwd = "start" THEN files ELSE <<>>

validate_terraform ==
    /\ pc = "validate_terraform"
    /\ LET files == Rglob(tf_files)
           banner == "Validating Terraform..."
       IN  IF files = <<>>
           THEN /\ pc' = "validate_ansible"
                /\ stdout' = Append(stdout, banner)
                /\ UNCHANGED <<exit_code, results, cwd, subprocess_calls>>
           ELSE
             LET st3 == TerraformFileChecks(files, Start(results.terraform))
             IN  IF st3.raised
                 THEN /\ Crash(<<banner>>, "read_text")
                      /\ results' = [results EXCEPT !.terraform = Entries(st3)]
                      /\ UNCHANGED <<cwd, subprocess_calls>>
                 ELSE \E tool \in TerraformOutcomes :
                   LET st4 == TerraformFmt(st3, tool.fmt)
                       st5 == TerraformValidate(st4, tool.validate)
                   IN  IF st4.raised
                       THEN /\ Crash(<<banner>>, "terraform fmt")
                            /\ results' = [results EXCEPT !.terraform = Entries(st4)]
                            /\ subprocess_calls' = Append(subprocess_calls, "terraform fmt")
                            /\ cwd' = cwd
                       ELSE /\ pc' = "validate_ansible"
                            /\ results' = [results EXCEPT !.terraform = Entries(st5)]
                            /\ stdout' = Append(stdout, banner) \o st5.checks
                            /\ subprocess_calls' =
                                 subprocess_calls \o <<"terraform fmt", "terraform validate">>
                            /\ cwd' = "terraform_path"
                            /\ exit_code' = exit_code
    /\ UNCHANGED <<args, costVars, tf_files, playbooks, manifests, report, json_file>>

validate_ansible ==
    /\ pc = "validate_ansible"
    /\ LET files == Rglob(playbooks)
           banner == "Validating Ansible..."
       IN  IF files = <<>>
           THEN /\ pc' = "validate_kubernetes"
                /\ stdout' = Append(stdout, banner)
                /\ UNCHANGED <<exit_code, results, subprocess_calls>>
           ELSE \E lint \in LintOutcomes :
             LET st1 == PlaybooksLoop(files, Start(results.ansible))
                 st2 == AnsibleLint(st1, lint)
             IN  /\ results' = [results EXCEPT !.ansible = Entries(st2)]
                 /\ subprocess_calls' = Append(subprocess_calls, "ansible-lint")
                 /\ IF st2.raised
                    THEN Crash(<<banner>>, "ansible-lint")
                    ELSE /\ pc' = "validate_kubernetes"
                         /\ stdout' = Append(stdout, banner) \o st2.checks
                         /\ exit_code' = exit_code
    /\ UNCHANGED <<args, costVars, tf_files, playbooks, manifests, cwd, report, json_file>>

validate_kubernetes ==
    /\ pc = "validate_kubernetes"
    /\ LET files == Rglob(manifests)
           banner == "Validating Kubernetes manifests..."
       IN  IF files = <<>>
           THEN /\ stdout' = Append(stdout, banner)
                /\ results' = results
           ELSE LET st == ManifestsLoop(files, Start(results.kubernetes))
                IN  /\ results' = [results EXCEPT !.kubernetes = Entries(st)]
                    /\ stdout' = Append(stdout, banner) \o st.checks
    /\ pc' = "generate_report"
    /\ UNCHANGED <<exit_code, args, costVars, tf_files, playbooks, manifests, cwd,
                   subprocess_calls, report, json_file>>

val_generate_report ==
    /\ pc = "generate_report"
    /\ args.script = "infrastructure-validator"
    /\ report' = Sections(results, Categories)
    /\ stdout' = Append(stdout, "Infrastructure Validation Report")
    /\ pc' = IF args.json_output THEN "json_output" ELSE "sys_exit"
    /\ UNCHANGED <<exit_code, args, costVars, tf_files, playbooks, manifests, results,
                   cwd, subprocess_calls, json_file>>

\* The --json-output branch of main.  open() may raise; main does not catch it.
json_output ==
    /\ pc = "json_output"
    /\ \E open_ok \in BOOLEAN :
         IF open_ok
         THEN /\ json_file' = DumpResults(results)
              /\ stdout' = Append(stdout, "Detailed results saved")
              /\ pc' = "sys_exit"
              /\ exit_code' = exit_code
         ELSE /\ Crash(<<>>, "open")
              /\ json_file' = json_file
    /\ UNCHANGED <<args, costVars, tf_files, playbooks, manifests, results, cwd,
                   subprocess_calls, report>>

RECURSIVE SumFailed(_, _)
SumFailed(res, cats) ==
    IF cats = <<>> THEN 0
    ELSE Len(res[Head(cats)].failed) + SumFailed(res, Tail(cats))

\* sys.exit(1 if total_failures > 0 else 0)
sys_exit ==
    /\ pc = "sys_exit"
    /\ LET total_failures == SumFailed(results, Categories)
       IN  exit_code' = IF total_failures > 0 THEN 1 ELSE 0
    /\ pc' = "done"
    /\ UNCHANGED <<stdout, args, costVars, valVars>>

----------------------------------------------------------------------------
CostNext ==
    \/ analyze_ec2_instances
    \/ analyze_ebs_volumes
    \/ analyze_snapshots
    \/ analyze_elastic_ips
    \/ cost_generate_report
    \/ export_json
    \/ cost_exit

ValNext ==
    \/ validate_terraform
    \/ validate_ansible
    \/ validate_kubernetes
    \/ val_generate_report
    \/ json_output
    \/ sys_exit

\* A run of cloud-cost-analyzer.py.
CostSpec == CostInit /\ [][CostNext]_vars

\* A run of infrastructure-validator.py.
ValSpec == ValInit /\ [][ValNext]_vars

\* A run of either script.
Init == CostInit \/ ValInit

Next ==
    \/ analyze_ec2_instances
    \/ analyze_ebs_volumes
    \/ analyze_snapshots
    \/ analyze_elastic_ips
    \/ cost_generate_report
    \/ export_json
    \/ cost_exit
    \/ validate_terraform
    \/ validate_ansible
    \/ validate_kubernetes
    \/ val_generate_report
    \/ json_output
    \/ sys_exit

Spec == Init /\ [][Next]_vars

----------------------------------------------------------------------------
(* Properties of infrastructure-validator.py.                              *)

IsValidator == args.script = "infrastructure-validator"
IsCost == args.script = "cloud-cost-analyzer"

Ended == pc \in {"done", "crashed"}

AnyFailed == \E c \in Range(Categories) : results[c].failed /= <<>>

\* The lines of out that are in lines, in the order they were printed.
Only(out, lines) == SelectSeq(out, LAMBDA l : l \in lines)

ValBanners ==
    <<"Validating Terraform...", "Validating Ansible...",
      "Validating Kubernetes manifests...", "Infrastructure Validation Report">>

\* C1: when a run of the validator has ended, its exit code is 1 if and
\* only if some category has an entry in its 'failed' list, and 0 otherwise.
C1_ExitCodeIffFailed ==
    (IsValidator /\ Ended) => exit_code = (IF AnyFailed THEN 1 ELSE 0)

\* C2: no failure of reading or parsing a file or of invoking an external
\* tool ends the run: a run that has ended has run the three validators in
\* the order terraform, ansible, kubernetes and generated the report, and
\* the only exception that reaches main is not one of those failures.
C2_FailuresCaughtInValidators ==
    (IsValidator /\ Ended) =>
        /\ Only(stdout, Range(ValBanners)) = ValBanners
        /\ pc = "crashed" => stdout[Len(stdout)] = "Traceback: open"

----------------------------------------------------------------------------
(* Properties of cloud-cost-analyzer.py.                                   *)

CostStages ==
    <<"analyze_ec2_instances", "analyze_ebs_volumes", "analyze_snapshots",
      "analyze_elastic_ips", "generate_report">>

Analysed == pc \in {"generate_report", "export_json", "exit", "done", "crashed"}

Printed(line) == line \in Range(stdout)

KeyErrorLines ==
    {"Error analyzing EC2: KeyError", "Error analyzing EBS: KeyError",
     "Error analyzing snapshots: KeyError", "Error analyzing Elastic IPs: KeyError"}

AllInstances == Flatten([g \in 1..Len(Reservations) |-> Reservations[g].Instances])

Count(seq, Test(_)) == Len(SelectSeq(seq, Test))

\* C3: a failure inside one analyze_* method, while enumerating or while
\* classifying, does not leave the method: each analysis step, whatever
\* fails in it, hands over to the next stage of the fixed order EC2, EBS,
\* snapshots, Elastic IPs, generate_report, leaves the process running and
\* keeps every finding collected before it.
C3_AnalysisFailuresContained ==
    [][\A k \in 1..4 :
         pc = CostStages[k] =>
            /\ pc' = CostStages[k + 1]
            /\ exit_code' = exit_code
            /\ IsPrefix(findings, findings')]_vars

\* A run in which the classification of one kind raised, findings of
\* another kind were collected and the report was generated.
C3_Witness ==
    /\ IsCost /\ pc = "done"
    /\ \E l \in KeyErrorLines : Printed(l)
    /\ findings /= <<>>
    /\ by_type /= <<>>

\* C4: every rule yields exactly one finding for each descriptor its
\* condition holds for and none for the others: per rule, the findings
\* with its message are as many as the returned descriptors that trigger
\* it, and every stopped instance has exactly one 'Stopped instance'
\* finding with potential_savings 'Low'.
C4_EveryRuleFiresExactlyOnce ==
    (IsCost /\ Analysed) =>
      /\ ~Printed("Error analyzing EC2: ConnectivityError") =>
           /\ \A k \in 1..Len(AllInstances) :
                 Count(findings, LAMBDA f :
                         /\ f.resource = AllInstances[k].InstanceId
                         /\ f.issue = "Stopped instance still incurring EBS costs"
                         /\ f.potential_savings = "Low")
                   = (IF AllInstances[k].State.Name = "stopped" THEN 1 ELSE 0)
           /\ Count(findings, LAMBDA f :
                       \E t \in InstanceTypes :
                          f.issue = "Old generation instance type: " \o Join(t))
                = Count(AllInstances, LAMBDA i :
                          /\ "InstanceType" \in DOMAIN i
                          /\ StartsWithAny(i.InstanceType, OldGenerationPrefixes))
      /\ ~Printed("Error analyzing EBS: ConnectivityError") =>
           /\ Count(findings, LAMBDA f :
                       \E z \in SizesGB :
                          f.issue = "Unattached " \o ToString(z) \o "GB volume")
                = Count(Volumes, LAMBDA v : v.State = "available")
           /\ Count(findings, LAMBDA f :
                       f.issue \in {"Old volume type: standard", "Old volume type: io1"})
                = Count(Volumes, LAMBDA v : v.VolumeType \in {"standard", "io1"})
      /\ ~Printed("Error analyzing snapshots: ConnectivityError") =>
           Count(findings, LAMBDA f : f.type = "Snapshot")
             = Count(Snapshots, LAMBDA sn :
                       "StartTime" \in DOMAIN sn /\ sn.StartTime < 0 - OldSnapshotDays)
      /\ ~Printed("Error analyzing Elastic IPs: ConnectivityError") =>
           Count(findings, LAMBDA f : f.issue = "Unassociated Elastic IP")
             = Count(Addresses, LAMBDA a : "AssociationId" \notin DOMAIN a)

\* C5: a descriptor with a missing field is never an error: no analysis
\* reports a KeyError, and every complete descriptor of a kind that was
\* returned is still evaluated, whatever precedes it in the response.
C5_MissingFieldNeverAnError ==
    IsCost =>
      /\ \A l \in KeyErrorLines : ~Printed(l)
      /\ Analysed =>
           /\ ~Printed("Error analyzing EC2: ConnectivityError") =>
                \A k \in 1..Len(AllInstances) :
                   LET i == AllInstances[k]
                   IN  ("InstanceType" \in DOMAIN i /\ i.State.Name = "stopped") =>
                          \E n \in 1..Len(findings) :
                             findings[n] = StoppedFinding(i.InstanceId)
           /\ ~Printed("Error analyzing EBS: ConnectivityError") =>
                \A k \in 1..Len(Volumes) :
                   LET v == Volumes[k]
                   IN  ("Size" \in DOMAIN v /\ v.State = "available") =>
                          \E n \in 1..Len(findings) :
                             /\ findings[n].resource = v.VolumeId
                             /\ findings[n].potential_savings /= "Low-Medium"
           /\ ~Printed("Error analyzing snapshots: ConnectivityError") =>
                \A k \in 1..Len(Snapshots) :
                   LET sn == Snapshots[k]
                   IN  ("StartTime" \in DOMAIN sn /\ sn.StartTime < 0 - OldSnapshotDays) =>
                          \E n \in 1..Len(findings) :
                             findings[n].resource = sn.SnapshotId

\* The grouping of generate_report is an order-preserving partition of the
\* findings: the groups have distinct types, the group of a type holds
\* exactly the findings of that type in arrival order, every finding has
\* a group, and the sizes add up to the printed total.
GroupSizes == [g \in 1..Len(by_type) |-> Len(by_type[g].findings)]

C6_Partition ==
    (IsCost /\ by_type /= <<>>) =>
      /\ \A g, h \in 1..Len(by_type) : by_type[g].type = by_type[h].type => g = h
      /\ \A g \in 1..Len(by_type) :
            /\ by_type[g].findings /= <<>>
            /\ by_type[g].findings
                 = SelectSeq(findings, LAMBDA f : f.type = by_type[g].type)
      /\ \A n \in 1..Len(findings) :
            \E g \in 1..Len(by_type) : by_type[g].type = findings[n].type
      /\ SumSeq(GroupSizes) = Len(findings)
      /\ Printed("Total Findings: " \o ToString(SumSeq(GroupSizes)))

\* C6: the findings list only ever grows at its end (nothing is removed,
\* changed, reordered or deduplicated), and whenever generate_report has
\* grouped it the groups are an order-preserving partition of it whose
\* sizes add up to the reported total.
C6_AppendOnlyAndPartitioned ==
    /\ []C6_Partition
    /\ [][IsPrefix(findings, findings')]_vars

\* Two equal findings are both kept and both grouped.
C6_Witness ==
    /\ IsCost /\ by_type /= <<>>
    /\ \E m, n \in 1..Len(findings) : m < n /\ findings[m] = findings[n]
    /\ \E g \in 1..Len(by_type) : Len(by_type[g].findings) >= 2

----------------------------------------------------------------------------
(* Properties of the JSON files and of the validator's report.             *)

Types(fs) == [n \in 1..Len(fs) |-> fs[n].type]

\* C7: what json.load reads back from a file one of the scripts wrote
\* agrees with memory: the export of the analyzer holds as many findings
\* as self.findings, with the same types in the same order, and a
\* total_findings equal to their number; the JSON output of the validator
\* holds the three categories with the same passed, failed and warnings
\* lists as self.results.
C7_JsonRoundTrip ==
    /\ export_file /= <<>> =>
         LET d == Load(export_file)
         IN  /\ Len(d.findings) = Len(findings)
             /\ Types(d.findings) = Types(findings)
             /\ d.total_findings = Len(d.findings)
    /\ json_file /= <<>> =>
         LET d == Load(json_file)
         IN  /\ DOMAIN d = Range(Categories)
             /\ \A c \in Range(Categories) :
                   /\ DOMAIN d[c] = Range(ResultKeys)
                   /\ \A k \in Range(ResultKeys) : d[c][k] = results[c][k]

\* An export of findings of two types has been written.
C7_Witness ==
    /\ export_file /= <<>>
    /\ \E m, n \in 1..Len(findings) : findings[m].type /= findings[n].type

\* A JSON output with a failed entry and a warning has been written.
C7_WitnessValidator ==
    /\ json_file /= <<>>
    /\ \E c \in Range(Categories) : results[c].failed /= <<>>
    /\ \E c \in Range(Categories) : results[c].warnings /= <<>>

Reported == IsValidator /\ pc \in {"json_output", "sys_exit", "done"}

Min(a, b) == IF a < b THEN a ELSE b

\* C9: once generate_report has run, and up to the end of the run, the
\* report has one section per category that has an entry, in the order of
\* the categories; the section's three counts are the lengths of the
\* category's lists as they are now, it lists every failed entry, and it
\* lists the first 5 warnings (all of them when there are fewer) in
\* insertion order.
C9_ReportMatchesResults ==
    Reported =>
      LET shownCats == SelectSeq(Categories, LAMBDA c :
                          results[c].passed /= <<>> \/ results[c].failed /= <<>>
                          \/ results[c].warnings /= <<>>)
      IN  /\ Len(report) = Len(shownCats)
          /\ \A n \in 1..Len(report) :
                LET sec == report[n]
                    r == results[shownCats[n]]
                IN  /\ sec.category = Upper(shownCats[n])
                    /\ sec.passed = Len(r.passed)
                    /\ sec.failed = Len(r.failed)
                    /\ sec.warnings = Len(r.warnings)
                    /\ sec.issues = r.failed
                    /\ Len(sec.shown) = Min(5, Len(r.warnings))
                    /\ IsPrefix(sec.shown, r.warnings)

\* A report that truncates a list of more than 5 warnings and leaves out
\* a category without entries, seen when the run has ended.
C9_Witness ==
    /\ Reported /\ pc = "done"
    /\ Len(report) < Len(Categories)
    /\ \E n \in 1..Len(report) :
          report[n].warnings > 5 /\ Len(report[n].shown) = 5

----------------------------------------------------------------------------
(* Properties of validate_kubernetes and of the external calls.            *)

IsWorkload(doc) ==
    doc.shape = "dict" /\ "kind" \in doc.keys /\ doc.kind \in WorkloadKinds

\* C8: when validate_kubernetes has run, every document of kind
\* Deployment, StatefulSet or DaemonSet of a manifest it read has exactly
\* one resource-limits outcome, and no other document has one: per file,
\* the '<file>: Resource limits' and '<file>: Add resource limits' entries
\* are together as many as the file's workload documents.
C8_OneLimitsOutcomePerWorkload ==
    (IsValidator /\ pc \in {"generate_report", "json_output", "sys_exit", "done"}) =>
      \A n \in 1..Len(Rglob(manifests)) :
         LET m == manifests[n]
         IN  m.readable =>
               Count(results.kubernetes.passed,
                     LAMBDA e : e = m.name \o ": Resource limits")
               + Count(results.kubernetes.failed,
                       LAMBDA e : e = m.name \o ": Add resource limits")
               = Count(m.docs, IsWorkload)

ToolTracebacks == {"Traceback: terraform fmt", "Traceback: ansible-lint"}

\* C10: no external command is run twice, and a command that cannot be
\* run does not change the exit status: the run does not end in the
\* traceback of a subprocess call.
C10_FailedCallLeavesExitStatus ==
    IsValidator =>
      /\ \A m, n \in 1..Len(subprocess_calls) :
            subprocess_calls[m] = subprocess_calls[n] => m = n
      /\ \A l \in ToolTracebacks : ~Printed(l)

----------------------------------------------------------------------------
(* infrastructure-validator: independence of the three validators.         *)

AfterAnsible ==
    pc \in {"validate_kubernetes", "generate_report", "json_output", "sys_exit", "done"}

AfterKubernetes == pc \in {"generate_report", "json_output", "sys_exit", "done"}

\* What validate_ansible records for the playbooks under its path argument
\* when it is the first validator to run, for one outcome of ansible-lint.
AnsibleAlone(lint) ==
    IF playbooks = <<>> THEN NoEntries
    ELSE Entries(AnsibleLint(PlaybooksLoop(playbooks, Start(NoEntries)), lint))

\* What validate_kubernetes records for the manifests under its path
\* argument when it is the first validator to run.
KubernetesAlone ==
    IF manifests = <<>> THEN NoEntries
    ELSE Entries(ManifestsLoop(manifests, Start(NoEntries)))

\* C11: the validators are independent: the process stays in the directory
\* it started in, so that relative path arguments keep naming the same
\* places, and what validate_ansible and validate_kubernetes record is what
\* they record for the same trees when validate_terraform has not run.
C11_ValidatorsIndependent ==
    IsValidator =>
      /\ cwd = "start"
      /\ AfterAnsible => \E lint \in LintOutcomes : results.ansible = AnsibleAlone(lint)
      /\ AfterKubernetes => results.kubernetes = KubernetesAlone

----------------------------------------------------------------------------
(* cloud-cost-analyzer: the CPU utilisation rule.                          *)

\* The only finding with potential_savings 'High' is the low-CPU one.
LowCpu(f) == f.type = "EC2" /\ f.potential_savings = "High"

Complete(instance) == {"InstanceId", "InstanceType", "State"} \subseteq DOMAIN instance

\* The CloudWatch reply for an instance holds datapoints whose average is
\* strictly below 10.
MeasuredLow(instance_id) ==
    LET r == cloudwatch[instance_id]
    IN  /\ ~r.raises
        /\ r.Datapoints /= <<>>
        /\ SumSeq(r.Datapoints) < 10 * Len(r.Datapoints)

\* The loop reaches instance k: the enumeration succeeded and no record up
\* to k lacks a field the loop body reads.
Reached(k) ==
    /\ pc /= "analyze_ec2_instances"
    /\ ~Printed("Error analyzing EC2: ConnectivityError")
    /\ \A j \in 1..k : Complete(AllInstances[j])

\* C12: a 'Low CPU utilization' finding belongs to an instance that is
\* running and whose metrics query returned datapoints averaging strictly
\* below 10, and carries that average; an instance has at most two
\* findings; and a metrics query that fails or returns nothing gives no
\* finding and stops nothing: every running instance the loop reaches is
\* queried once and gets its finding when its average is low, whatever the
\* queries before it returned.
C12_LowCpuOnlyWhenMeasuredLow ==
    IsCost =>
      /\ \A n \in 1..Len(findings) :
            LowCpu(findings[n]) =>
               \E k \in 1..Len(AllInstances) :
                  LET i == AllInstances[k]
                      r == cloudwatch[i.InstanceId]
                  IN  /\ findings[n].resource = i.InstanceId
                      /\ i.State.Name = "running"
                      /\ MeasuredLow(i.InstanceId)
                      /\ findings[n].issue =
                           "Low CPU utilization: "
                             \o OneDecimal(SumSeq(r.Datapoints), Len(r.Datapoints))
                             \o "%"
      /\ \A k \in 1..Len(AllInstances) :
            Count(findings, LAMBDA f :
                    f.type = "EC2" /\ f.resource = AllInstances[k].InstanceId) <= 2
      /\ \A k \in 1..Len(AllInstances) :
            (Reached(k) /\ AllInstances[k].State.Name = "running") =>
               LET id == AllInstances[k].InstanceId
               IN  /\ Count(metric_calls, LAMBDA c : c = id) = 1
                   /\ Count(findings, LAMBDA f : LowCpu(f) /\ f.resource = id)
                        = (IF MeasuredLow(id) THEN 1 ELSE 0)

\* A run in which the metrics query of a running instance failed or came
\* back empty and a later instance of the response got its low-CPU finding,
\* and one in which a stopped instance has low datapoints.
C12_Witness ==
    /\ IsCost /\ Analysed
    /\ \E j, k \in 1..Len(AllInstances) :
          /\ j < k
          /\ Complete(AllInstances[j]) /\ AllInstances[j].State.Name = "running"
          /\ LET r == cloudwatch[AllInstances[j].InstanceId]
             IN  r.raises \/ r.Datapoints = <<>>
          /\ \E n \in 1..Len(findings) :
                LowCpu(findings[n]) /\ findings[n].resource = AllInstances[k].InstanceId

C12_WitnessStopped ==
    /\ IsCost /\ Analysed
    /\ \E k \in 1..Len(AllInstances) :
          /\ AllInstances[k].State.Name = "stopped"
          /\ MeasuredLow(AllInstances[k].InstanceId)
          /\ \E n \in 1..Len(findings) :
                findings[n] = StoppedFinding(AllInstances[k].InstanceId)

====
